---------------------------- MODULE Spec2Model ----------------------------
(***************************************************************************)
(* Target-list ingestion and network reconciliation of cms_upgrade:        *)
(*   app/extensions.py      the read-only warehouse source, the local      *)
(*                          mirror network_npis and refresh_network_cache  *)
(*   app/routes/targets.py  the upload route (target_lists), the detail    *)
(*                          view (target_list_detail) and                  *)
(*                          compute_network_match_count                    *)
(*                                                                         *)
(* A text value is a sequence of one-character strings; SQL NULL / Python  *)
(* None is the one-element sequence NoneVal.  An absent integer (None) is  *)
(* 0, as the code itself conflates the two (int(..) or None).              *)
(***************************************************************************)
EXTENDS Integers, Sequences, FiniteSets, TLC

VARIABLES
    phase,                   \* "boot" until create_app has run, then "serving"
    ro_engine,               \* extensions.ro_engine is set
    ro_sql_network_npi,      \* extensions.ro_sql_network_npi is set
    network_cache_strategy,  \* "unset" | "live" | "startup_snapshot" | "manual"
    network_cache_limit,     \* 0 for None
    network_cache_last_at,   \* 0 for None, else the clock value at the refresh
    network_cache_count,
    match_enabled,           \* env MATCH_NETWORK_ENABLED is true
    clock,                   \* datetime.utcnow()
    source,                  \* rows the warehouse returns for NETWORK_NPI_SQL
    network_table,           \* the local table network_npis exists
    network_npis,            \* rows of the local table network_npis
    target_lists,            \* rows of target_lists
    target_list_entries,     \* rows of target_list_entries
    last,                    \* the last operation: its input, what it returned,
                             \* the calls of refresh_network_cache it made and
                             \* whether a refresh got to its local transaction
    rf                       \* the calls of refresh_network_cache under way, each
                             \* with its place in the code and its local variables

vars == <<phase, ro_engine, ro_sql_network_npi, network_cache_strategy,
          network_cache_limit, network_cache_last_at, network_cache_count,
          match_enabled, clock, source, network_table, network_npis,
          target_lists, target_list_entries, last, rf>>

-----------------------------------------------------------------------------
(* Bounds of the model                                                     *)

\* longest warehouse result set
MaxSrc == 3
\* longest warehouse result set when the whole process is followed
SysMaxSrc == 2
\* longest upload, in records
MaxRows == 2
\* longest upload when the whole process is followed
SysMaxRows == 1
\* number of target lists stored
MaxLists == 1
\* largest NETWORK_CACHE_LIMIT
MaxLimit == 1
\* number of successful refreshes (readings of utcnow) followed
MaxClock == 1
\* stands for batch_size = 5000 of refresh_network_cache (extensions.py:114)
BatchSize == 2
\* stands for fetchmany(50000) of _stream_network_npis_from_pg (targets.py:174)
ChunkSize == 2

-----------------------------------------------------------------------------
(* Text                                                                    *)

NoneVal == <<"NULL">>

Min(a, b) == IF a <= b THEN a ELSE b

Range(s) == {s[i] : i \in 1..Len(s)}

SeqsUpTo(S, n) == UNION {[1..k -> S] : k \in 0..n}

\* characters str.isdigit() accepts: the decimal digits and, as Python
\* defines it, every other Unicode digit (here SUPERSCRIPT TWO)
AsciiDigits == {"0", "1", "2", "3", "4", "5", "6", "7", "8", "9"}

UnicodeDigits == {"U+00B2"}

isdigit(ch) == ch \in AsciiDigits \cup UnicodeDigits

isspace(ch) == ch \in {" "}

RECURSIVE lstrip(_)
lstrip(s) == IF s # <<>> /\ isspace(Head(s)) THEN lstrip(Tail(s)) ELSE s

RECURSIVE rstrip(_)
rstrip(s) ==
    IF s # <<>> /\ isspace(s[Len(s)]) THEN rstrip(SubSeq(s, 1, Len(s) - 1)) ELSE s

strip(s) == rstrip(lstrip(s))

\* str(x): None prints as the text None
str(x) == IF x = NoneVal THEN <<"N", "o", "n", "e">> ELSE x

-----------------------------------------------------------------------------
(* extensions.py: the local mirror and refresh_network_cache               *)

\* mutant: a plain INSERT, on a table that lost its primary key
InsertPlain(tbl, n) == Append(tbl, n)

\* one row of INSERT INTO network_npis .. ON CONFLICT(npi) DO NOTHING
InsertOnConflictDoNothing(tbl, n) == IF n \in Range(tbl) THEN tbl ELSE Append(tbl, n)

\* executemany of the INSERT over a batch
RECURSIVE InsertBatch(_, _)
InsertBatch(tbl, batch) ==
    IF batch = <<>> THEN tbl
    ELSE InsertBatch(InsertOnConflictDoNothing(tbl, Head(batch)), Tail(batch))

\* limit = network_cache_limit or float("inf")
ReachedLimit(rows_inserted, limit) == limit # 0 /\ rows_inserted >= limit

\* n = str(row[0]) if row and row[0] is not None else None; if not n: continue
SkipRow(v) == v = NoneVal \/ str(v) = <<>>

(* The body of "with db.engine.begin() as lconn" after the DELETE: the for  *)
(* loop over the streamed result from row i on, and the final flush.       *)
(* fault.kind = "stream" makes the cursor raise when row fault.at is       *)
(* fetched, "insert" makes INSERT number fault.at raise.  ninserts counts  *)
(* the INSERT statements executed so far.                                  *)
RECURSIVE RefillLoop(_, _, _, _, _, _, _, _)
RefillLoop(result, i, batch, rows_inserted, ninserts, tbl, limit, fault) ==
    IF i > Len(result)
    THEN IF fault.kind = "stream" /\ fault.at = i
         THEN [ok |-> FALSE, tbl |-> tbl, rows_inserted |-> rows_inserted]
         ELSE IF batch # <<>>
              THEN IF fault.kind = "insert" /\ fault.at = ninserts + 1
                   THEN [ok |-> FALSE, tbl |-> tbl, rows_inserted |-> rows_inserted]
                   ELSE [ok |-> TRUE, tbl |-> InsertBatch(tbl, batch),
                         rows_inserted |-> rows_inserted + Len(batch)]
              ELSE [ok |-> TRUE, tbl |-> tbl, rows_inserted |-> rows_inserted]
    ELSE IF fault.kind = "stream" /\ fault.at = i
         THEN [ok |-> FALSE, tbl |-> tbl, rows_inserted |-> rows_inserted]
         ELSE IF SkipRow(result[i])
              THEN RefillLoop(result, i + 1, batch, rows_inserted, ninserts,
                              tbl, limit, fault)
              ELSE LET b == Append(batch, str(result[i]))
                   IN  IF Len(b) >= BatchSize
                       THEN IF fault.kind = "insert" /\ fault.at = ninserts + 1
                            THEN [ok |-> FALSE, tbl |-> tbl,
                                  rows_inserted |-> rows_inserted]
                            ELSE IF ReachedLimit(rows_inserted + Len(b), limit)
                                 THEN [ok |-> TRUE, tbl |-> InsertBatch(tbl, b),
                                       rows_inserted |-> rows_inserted + Len(b)]
                                 ELSE RefillLoop(result, i + 1, <<>>,
                                                 rows_inserted + Len(b),
                                                 ninserts + 1,
                                                 InsertBatch(tbl, b), limit, fault)
                       ELSE RefillLoop(result, i + 1, b, rows_inserted, ninserts,
                                       tbl, limit, fault)

\* lconn.exec_driver_sql("DELETE FROM network_npis")
Truncate(tbl) == <<>>

\* lines 117-139: one local transaction, DELETE then refill
RefillTransaction(result, tbl, limit, fault) ==
    RefillLoop(result, 1, <<>>, 0, 0, Truncate(tbl), limit, fault)

\* mutant: the statements run on a connection that commits each of them
RollbackLocalKeeps(before, tbl) == tbl

\* "with db.engine.begin() as lconn" left by an exception: the transaction is
\* rolled back, the rows are those from before the DELETE
RollbackLocal(before, tbl) == before

\* mutant: "and" for "or" in the guard, which then passes with one of the two
SourceConfiguredEither(engine, sql) == engine \/ sql

\* if not ro_engine or not ro_sql_network_npi: raise RuntimeError(..)
SourceConfigured(engine, sql) == engine /\ sql

(* refresh_network_cache() on the state st = [engine, sql, limit, source,  *)
(* table, npis, last_at, count, now].  The result carries what was raised  *)
(* ("none" when it returned), the value returned and the state left.       *)
(*   "ensure"  ensure_local_network_table fails (local store error)        *)
(*   "connect" ro_engine.connect() fails (warehouse unreachable)           *)
(*   "query"   the SELECT fails (bad NETWORK_NPI_SQL)                      *)
(*   "stream"/"insert" fail inside the local transaction, which db.engine  *)
(*             .begin() then rolls back                                    *)
refresh_network_cache(st, fault) ==
    LET unchanged == [raised |-> "none", value |-> 0, table |-> st.table,
                      npis |-> st.npis, last_at |-> st.last_at,
                      count |-> st.count, started |-> FALSE]
    IN
    IF ~SourceConfigured(st.engine, st.sql)
    THEN [unchanged EXCEPT !.raised = "RuntimeError"]
    ELSE IF fault.kind = "ensure"
    THEN [unchanged EXCEPT !.raised = "Exception"]
    ELSE IF fault.kind \in {"connect", "query"}
    THEN [unchanged EXCEPT !.raised = "Exception", !.table = TRUE]
    ELSE LET r == RefillTransaction(st.source, st.npis, st.limit, fault)
         IN  IF ~r.ok
             THEN [unchanged EXCEPT !.raised = "Exception", !.table = TRUE,
                                    !.npis = RollbackLocal(st.npis, r.tbl),
                                    !.started = TRUE]
             ELSE [raised |-> "none", value |-> r.rows_inserted, table |-> TRUE,
                   npis |-> r.tbl, last_at |-> st.now,
                   count |-> r.rows_inserted, started |-> TRUE]

-----------------------------------------------------------------------------
(* targets.py: the match                                                   *)

\* SELECT DISTINCT net.npi: the first occurrence of every value, NULL too
RECURSIVE Distinct(_)
Distinct(rows) ==
    IF rows = <<>> THEN <<>>
    ELSE LET front == Distinct(SubSeq(rows, 1, Len(rows) - 1))
             x == rows[Len(rows)]
         IN  IF x \in Range(front) THEN front ELSE Append(front, x)

\* for (npi,) in rows: yield str(npi).strip()
Yielded(npi) == strip(str(npi))

\* the hits of one fetched chunk: if net_npi in tl_npis: matched += 1
ChunkHits(chunk, tl_npis) ==
    Cardinality({i \in 1..Len(chunk) : Yielded(chunk[i]) \in tl_npis})

(* _gen() of _stream_network_npis_from_pg consumed by the for loop of      *)
(* compute_network_match_count, from fetchmany call number c on.           *)
(* fault.kind = "stream" makes fetchmany call number fault.at raise.       *)
(* held is the largest number of warehouse rows held at one time.          *)
RECURSIVE StreamAndIntersect(_, _, _, _, _, _)
StreamAndIntersect(rows, c, matched, held, tl_npis, fault) ==
    IF fault.kind = "stream" /\ fault.at = c
    THEN [ok |-> FALSE, matched |-> matched, held |-> held]
    ELSE LET first == (c - 1) * ChunkSize + 1
             chunk == SubSeq(rows, first, Min(Len(rows), c * ChunkSize))
         IN  IF chunk = <<>>
             THEN [ok |-> TRUE, matched |-> matched, held |-> held]
             ELSE StreamAndIntersect(rows, c + 1,
                                     matched + ChunkHits(chunk, tl_npis),
                                     IF Len(chunk) > held THEN Len(chunk) ELSE held,
                                     tl_npis, fault)

\* SELECT COUNT(*) FROM (SELECT npi FROM network_npis WHERE npi IN (the list's npis))
CacheMatch(npis, tl_npis) == Cardinality({i \in 1..Len(npis) : npis[i] \in tl_npis})

\* if not ext.ro_engine or not ext.ro_sql_network_npi: return iter(())
StreamConfigured(engine, sql) == engine /\ sql

\* use_cache = strategy in {"startup_snapshot", "manual"}
UseCache(strategy) == strategy \in {"startup_snapshot", "manual"}

\* mutant: the test "if not tl_npis" left out
NoEntriesUntested(tl_npis) == FALSE

\* if not tl_npis: return 0
NoEntries(tl_npis) == tl_npis = {}

\* mutant: the handler returns the hits counted so far, "return matched"
MatchFailedPartial(partial) == [value |-> partial, raised |-> FALSE]

\* mutant: an except clause too narrow for the error, which reaches the caller
MatchFailedReraise(partial) == [value |-> 0, raised |-> TRUE]

\* except Exception as e: flash(..); return 0
MatchFailed(partial) == [value |-> 0, raised |-> FALSE]

(* compute_network_match_count(target_list_id) where tl_npis is the set of *)
(* npi of the list's entries as the session sees them and st the state     *)
(* [enabled, strategy, engine, sql, table, npis, source].  The result:     *)
(* value returned, raised, failed (an exception was caught), connected (a  *)
(* warehouse connection was opened), held, partial (hits counted before a  *)
(* failure) and table (network_npis exists afterwards).                    *)
(*   "ensure"  ensure_local_network_table fails    (cache strategies)      *)
(*   "mirror"  the COUNT query on the mirror fails (cache strategies)      *)
(*   "entries" the SELECT of the list's npis fails (live)                  *)
(*   "connect" / "query" / "stream" the warehouse fails (live)             *)
compute_network_match_count(st, tl_npis, fault) ==
    LET base == [value |-> 0, raised |-> FALSE, failed |-> FALSE,
                 connected |-> FALSE, held |-> 0, partial |-> 0,
                 table |-> st.table]
        caught(partial, res) ==
            [res EXCEPT !.value = MatchFailed(partial).value,
                        !.raised = MatchFailed(partial).raised,
                        !.failed = TRUE, !.partial = partial]
    IN
    IF ~st.enabled THEN base
    ELSE IF UseCache(st.strategy)
    THEN IF fault.kind = "ensure" THEN caught(0, base)
         ELSE IF fault.kind = "mirror" THEN caught(0, [base EXCEPT !.table = TRUE])
         ELSE [base EXCEPT !.table = TRUE, !.value = CacheMatch(st.npis, tl_npis)]
    ELSE IF fault.kind = "entries" THEN caught(0, base)
    ELSE IF NoEntries(tl_npis) THEN base
    ELSE IF ~StreamConfigured(st.engine, st.sql) THEN base
    ELSE IF fault.kind = "connect" THEN caught(0, base)
    ELSE IF fault.kind = "query" THEN caught(0, [base EXCEPT !.connected = TRUE])
    ELSE LET r == StreamAndIntersect(Distinct(st.source), 1, 0, 0, tl_npis, fault)
             res == [base EXCEPT !.connected = TRUE, !.held = r.held]
         IN  IF r.ok THEN [res EXCEPT !.value = r.matched]
             ELSE caught(r.matched, res)

-----------------------------------------------------------------------------
(* targets.py: parsing helpers                                             *)

\* the dicts of _read_rows: row r of an upload as its (header, cell) pairs
RowItems(up, r) == [c \in 1..Len(up.headers) |-> <<up.headers[c], up.cells[r][c]>>]

\* row.get(h): the cell under header h (a header is the key of one column)
Cell(up, r, h) ==
    LET c == CHOOSE c \in 1..Len(up.headers) : up.headers[c] = h IN up.cells[r][c]

\* "".join(ch for ch in str(raw or "").strip() if ch.isdigit())
_extract_clean_npi(raw) ==
    LET s == IF raw = NoneVal THEN <<>> ELSE raw
    IN  SelectSeq(strip(str(s)), isdigit)

\* h.lower().strip() for the header names that occur
LowerStrip(h) ==
    CASE h = "NPI" -> "npi"
      [] h = "NPI_Number" -> "npi_number"
      [] h = " npi " -> "npi"
      [] OTHER -> h

candidates == <<"npi", "npi_id", "npi number", "npi_number">>

\* len(v) == 10
NpiLen == 10

\* rows[:200]
SampleRows == 200

\* score of a column: its cells among the first 200 rows with exactly 10 digits
Score(up, h) ==
    Cardinality({r \in 1..Min(Len(up.cells), SampleRows) :
        LET raw == Cell(up, r, h)
        IN  Len(SelectSeq(IF raw = NoneVal THEN <<>> ELSE raw, isdigit)) = NpiLen})

\* the loop "if score > best_score": the first column of the highest score
RECURSIVE BestColumn(_, _, _, _)
BestColumn(up, c, best, best_score) ==
    IF c > Len(up.headers) THEN best
    ELSE LET sc == Score(up, up.headers[c])
         IN  IF sc > best_score THEN BestColumn(up, c + 1, up.headers[c], sc)
             ELSE BestColumn(up, c + 1, best, best_score)

(* _pick_npi_column(rows); "" when nothing usable is found (None and ""    *)
(* are both falsy to its caller)                                           *)
_pick_npi_column(up) ==
    IF up.cells = <<>> THEN ""
    ELSE LET found == {k \in 1..Len(candidates) :
                          \E c \in 1..Len(up.headers) :
                              LowerStrip(up.headers[c]) = candidates[k]}
         IN  IF found # {}
             THEN LET k == CHOOSE k \in found : \A j \in found : k <= j
                      c == CHOOSE c \in 1..Len(up.headers) :
                              /\ LowerStrip(up.headers[c]) = candidates[k]
                              /\ \A d \in 1..(c - 1) :
                                    LowerStrip(up.headers[d]) # candidates[k]
                  IN  up.headers[c]
             ELSE LET best == BestColumn(up, 1, "", -1)
                  IN  IF best # "" THEN best ELSE up.headers[1]

-----------------------------------------------------------------------------
(* targets.py: the upload route target_lists (POST)                        *)

\* if len(extra) > 30
MaxExtraKeys == 30

\* mutant: the cut keeps the last 30 keys, list(extra.keys())[-30:]
ExtraLastKeys(up, r, npi_col) ==
    LET items == RowItems(up, r)
        extra == SelectSeq(items, LAMBDA kv : kv[1] # npi_col)
    IN  IF Len(extra) > 30 THEN SubSeq(extra, Len(extra) - 29, Len(extra)) ELSE extra

(* extra = {k: v for k, v in r.items() if k != npi_col}, cut to its first  *)
(* 30 keys; stored as None (here the empty sequence) when it is empty      *)
Extra(up, r, npi_col) ==
    LET items == RowItems(up, r)
        extra == SelectSeq(items, LAMBDA kv : kv[1] # npi_col)
    IN  IF Len(extra) > MaxExtraKeys THEN SubSeq(extra, 1, MaxExtraKeys) ELSE extra

\* mutant: a later record of a seen identifier replaces the entry kept for it
EntryStepLastWins(acc, e) ==
    IF e.npi = <<>> THEN acc
    ELSE IF e.npi \in acc.seen
    THEN [acc EXCEPT !.to_insert =
             [i \in 1..Len(@) |-> IF @[i].npi = e.npi THEN e ELSE @[i]]]
    ELSE [seen |-> acc.seen \cup {e.npi}, to_insert |-> Append(acc.to_insert, e)]

\* mutant: seen.add(npi) before the test "if not npi", the empty identifier counted
EntryStepCountsEmpty(acc, e) ==
    IF e.npi \in acc.seen THEN acc
    ELSE IF e.npi = <<>> THEN [acc EXCEPT !.seen = @ \cup {e.npi}]
    ELSE [seen |-> acc.seen \cup {e.npi}, to_insert |-> Append(acc.to_insert, e)]

\* one turn of "for r in rows": acc = [seen, to_insert], e the entry row r gives
EntryStep(acc, e) ==
    IF e.npi = <<>> \/ e.npi \in acc.seen THEN acc
    ELSE [seen |-> acc.seen \cup {e.npi}, to_insert |-> Append(acc.to_insert, e)]

\* lines 272-283: seen and to_insert after the rows from r on
RECURSIVE BuildEntries(_, _, _, _, _)
BuildEntries(up, r, npi_col, tid, acc) ==
    IF r > Len(up.cells) THEN acc
    ELSE BuildEntries(up, r + 1, npi_col, tid,
            EntryStep(acc, [target_list_id |-> tid,
                            npi |-> _extract_clean_npi(Cell(up, r, npi_col)),
                            extra |-> Extra(up, r, npi_col)]))

\* the id the INSERT of a new target_lists row gets
NextId(lists) == Len(lists) + 1

\* db.session.commit(): the flushed rows become rows of the store
Commit(store, tx) ==
    [lists |-> store.lists \o tx.lists, entries |-> store.entries \o tx.entries]

\* mutant: the handler without its rollback, the flushed rows later committed
RollbackKeepsFlushed(store, tx) == Commit(store, tx)

\* db.session.rollback(): the flushed rows are gone
Rollback(store, tx) == store

\* the list's npis as the session sees them: SELECT e.npi .. WHERE target_list_id = tid
ListNpis(entries, tid) ==
    {entries[i].npi : i \in {j \in 1..Len(entries) : entries[j].target_list_id = tid}}

\* what is recorded of a match computation (ran: one was made)
NoMatch ==
    [ran |-> FALSE, value |-> 0, raised |-> FALSE, failed |-> FALSE,
     connected |-> FALSE]

Recorded(m) ==
    [ran |-> TRUE, value |-> m.value, raised |-> m.raised, failed |-> m.failed,
     connected |-> m.connected]

(* target_lists() for a POST (target_lists_POST) of upload up on st = [lists, entries] @@ the  *)
(* match state.  fault: "read" (_read_rows raises), "flush" (the INSERT of *)
(* the list fails), "bulk" (bulk_save_objects fails), "commit".            *)
target_lists_POST(st, up, fault, mfault) ==
    LET store == [lists |-> st.lists, entries |-> st.entries]
        notx == [lists |-> <<>>, entries |-> <<>>]
        failed(tx, tbl, m) ==
            [outcome |-> "failed", store |-> Rollback(store, tx), table |-> tbl,
             match |-> m, tid |-> 0]
    IN
    IF ~up.file
    THEN [outcome |-> "no_file", store |-> store, table |-> st.table,
          match |-> NoMatch, tid |-> 0]
    ELSE IF fault = "read" THEN failed(notx, st.table, NoMatch)
    ELSE IF up.cells = <<>> THEN failed(notx, st.table, NoMatch)
    ELSE LET npi_col == _pick_npi_column(up)
         IN
         IF npi_col = "" THEN failed(notx, st.table, NoMatch)
         ELSE IF fault = "flush" THEN failed(notx, st.table, NoMatch)
         ELSE LET tid == NextId(st.lists)
                  t0 == [id |-> tid, n_rows |-> 0, n_unique_npi |-> 0,
                         n_matched_network |-> 0]
                  built == BuildEntries(up, 1, npi_col, tid,
                                        [seen |-> {}, to_insert |-> <<>>])
              IN
              IF fault = "bulk"
              THEN failed([lists |-> <<t0>>, entries |-> <<>>], st.table, NoMatch)
              ELSE LET m == compute_network_match_count(st,
                               ListNpis(st.entries \o built.to_insert, tid), mfault)
                       t == [id |-> tid, n_rows |-> Len(up.cells),
                             n_unique_npi |-> Cardinality(built.seen),
                             n_matched_network |-> m.value]
                       tx == [lists |-> <<t>>, entries |-> built.to_insert]
                   IN
                   IF m.raised \/ fault = "commit"
                   THEN failed(tx, m.table, Recorded(m))
                   ELSE [outcome |-> "stored", store |-> Commit(store, tx),
                         table |-> m.table, match |-> Recorded(m), tid |-> tid]

\* mutant: "+=" for "=", the count of every view added to the stored one
AddMatchCount(store, tid, v) ==
    [store EXCEPT !.lists[tid].n_matched_network = @ + v]

\* t.n_matched_network = compute_network_match_count(t.id)
SetMatchCount(store, tid, v) ==
    [store EXCEPT !.lists[tid].n_matched_network = v]

(* target_list_detail(tid) for a GET: lines 313-316 and 342-344.           *)
(* fault "commit": db.session.commit() raises and the request fails        *)
target_list_detail(st, tid, fault, mfault) ==
    LET store == [lists |-> st.lists, entries |-> st.entries]
    IN
    IF tid \notin 1..Len(st.lists)
    THEN [outcome |-> "not_found", store |-> store, table |-> st.table,
          match |-> NoMatch, tid |-> tid]
    ELSE LET m == compute_network_match_count(st, ListNpis(st.entries, tid), mfault)
         IN  IF m.raised \/ fault = "commit"
             THEN [outcome |-> "failed", store |-> store, table |-> m.table,
                   match |-> Recorded(m), tid |-> tid]
             ELSE [outcome |-> "shown",
                   store |-> SetMatchCount(store, tid, m.value),
                   table |-> m.table, match |-> Recorded(m), tid |-> tid]

-----------------------------------------------------------------------------
(* extensions.py: init_readonly_engine_from_env, called by create_app      *)

\* strategy if strategy in {"live", "startup_snapshot", "manual"} else "live"
ParseStrategy(text) ==
    IF text \in {"live", "startup_snapshot", "manual"} THEN text ELSE "live"

\* int(NETWORK_CACHE_LIMIT or "0") or None; -1 stands for unset or not a number
ParseLimit(n) == IF n < 0 THEN 0 ELSE n

\* mutant: the snapshot at startup tried under every strategy that uses the mirror
SnapshotWheneverCached(strategy, engine, sql) ==
    strategy \in {"startup_snapshot", "manual"} /\ engine /\ sql

\* line 67: the snapshot at startup is tried under this condition only
SnapshotAtStartup(strategy, engine, sql) ==
    strategy = "startup_snapshot" /\ engine /\ sql

\* mutant: the handler catches the not-configured error only
PassedOverRuntimeErrorOnly(raised) == raised = "RuntimeError"

\* lines 70-72: except Exception: pass
PassedOver(raised) == raised \in {"RuntimeError", "Exception"}

(* init_readonly_engine_from_env() under environment env on the local      *)
(* store st = [source, table, npis, last_at, count, now]: the globals it   *)
(* sets and what the refresh it may try leaves.  Whatever the refresh      *)
(* raises is passed over (except Exception: pass).  calls is the number of *)
(* calls of refresh_network_cache made; completed says that the function   *)
(* returned, so that create_app goes on to return the application.         *)
init_readonly_engine_from_env(env, st, fault) ==
    LET strategy == ParseStrategy(env.strategy)
        limit == ParseLimit(env.limit)
        rst == [engine |-> env.url, sql |-> env.sql, limit |-> limit,
                source |-> st.source, table |-> st.table, npis |-> st.npis,
                last_at |-> st.last_at, count |-> st.count, now |-> st.now]
        tried == SnapshotAtStartup(strategy, env.url, env.sql)
        r == refresh_network_cache(rst, fault)
    IN  [engine |-> env.url, sql |-> env.sql, strategy |-> strategy,
         limit |-> limit, tried |-> tried,
         calls |-> IF tried THEN 1 ELSE 0,
         started |-> tried /\ r.started,
         refreshed |-> tried /\ r.raised = "none",
         raised |-> IF tried THEN r.raised ELSE "none",
         table |-> IF tried THEN r.table ELSE st.table,
         npis |-> IF tried THEN r.npis ELSE st.npis,
         last_at |-> IF tried THEN r.last_at ELSE st.last_at,
         count |-> IF tried THEN r.count ELSE st.count,
         completed |-> ~tried \/ r.raised = "none" \/ PassedOver(r.raised)]

-----------------------------------------------------------------------------
(* Inputs                                                                  *)

\* what one row of the warehouse result can hold in its npi column
NetVals == {NoneVal, <<>>, <<"1">>, <<" ", "1">>, <<"2">>}

\* the warehouse results of at most n rows
Sources(n) == SeqsUpTo(NetVals, n)

NoFault == [kind |-> "none", at |-> 0]

RefreshFaults(src) ==
    {NoFault}
    \cup {[kind |-> k, at |-> 0] : k \in {"ensure", "connect", "query"}}
    \cup {[kind |-> "stream", at |-> i] : i \in 1..(Len(src) + 1)}
    \cup {[kind |-> "insert", at |-> j] : j \in 1..((Len(src) \div BatchSize) + 1)}

\* the faults that can strike a match under the strategy; a result of n rows
\* is fetched in the calls 1 .. ceil(n / ChunkSize) + 1 of fetchmany
MatchFaults(strategy, src) ==
    IF strategy \in {"startup_snapshot", "manual"}
    THEN {[kind |-> k, at |-> 0] : k \in {"ensure", "mirror"}}
    ELSE {[kind |-> k, at |-> 0] : k \in {"entries", "connect", "query"}}
         \cup {[kind |-> "stream", at |-> c] :
                  c \in 1..(((Len(src) + ChunkSize - 1) \div ChunkSize) + 1)}

\* the faults of one upload: none, one storage fault, or one fault of the match
UploadFaults(strategy, src) ==
    {<<f, NoFault>> : f \in {"none", "read", "flush", "bulk", "commit"}}
    \cup {<<"none", mf>> : mf \in MatchFaults(strategy, src)}

DetailFaults(strategy, src) ==
    {<<f, NoFault>> : f \in {"none", "commit"}}
    \cup {<<"none", mf>> : mf \in MatchFaults(strategy, src)}

\* the environments that give NETWORK_CACHE_LIMIT one of limits
Envs(limits) ==
    [url : BOOLEAN, sql : BOOLEAN,
     strategy : {"", "live", "startup_snapshot", "manual", "bogus"},
     limit : limits]

\* the npi cell and the other cell of an uploaded record; U+00B2 is the one
\* character SUPERSCRIPT TWO
CellVals == {NoneVal, <<"1">>, <<"1", "-">>, <<"2">>, <<"x">>, <<"U+00B2">>}

XVals == {<<"a">>, <<"b">>}

NoFile == [file |-> FALSE, headers |-> <<>>, cells |-> <<>>]

\* no file, and the files of at most n records under the header npi,x
Uploads(cells, xs, n) ==
    {NoFile}
    \cup {[file |-> TRUE, headers |-> <<"npi", "x">>, cells |-> c] :
            c \in SeqsUpTo(cells \X xs, n)}

TenDigits == <<"1", "2", "3", "4", "5", "6", "7", "8", "9", "0">>

(* Files under other headers: a header line that starts with a comma (the  *)
(* first column has the empty name), a header none of the candidate names  *)
(* matches, with and without a column of ten-digit values, and a           *)
(* candidate name in another case and place.                               *)
OtherUploads ==
    {[file |-> TRUE, headers |-> h, cells |-> <<c>>] :
        h \in {<<"", "x">>, <<"id", "x">>, <<"x", "NPI_Number">>},
        c \in {<<<<"1">>, <<"2">>>>, <<<<"a">>, TenDigits>>}}

(* Files of one record and many columns: 30 and 31 columns besides the     *)
(* identifier column npi, which stands first, second or last; the other    *)
(* columns are named c1, c2, .. and column c holds the text of c.          *)
WideUploads ==
    {[file |-> TRUE,
      headers |-> [c \in 1..n |-> IF c = at THEN "npi" ELSE "c" \o ToString(c)],
      cells |-> <<[c \in 1..n |-> IF c = at THEN <<"1">> ELSE <<ToString(c)>>]>>] :
        n \in {MaxExtraKeys + 1, MaxExtraKeys + 2}, at \in {1, 2, MaxExtraKeys + 1}}

-----------------------------------------------------------------------------
(* The state machine                                                       *)

\* the places of refresh_network_cache inside "with db.engine.begin() as lconn"
InTransactionAt(pc) == pc \in {"loop", "flush", "commit"}

\* the thread that calls refresh_network_cache beside the requests of others
Refreshers == {"r1"}

\* two threads that call refresh_network_cache at the same time
Racers == {"r1", "r2"}

\* what a thread's last call of refresh_network_cache came to: "never" (none
\* made, or one under way), else what it raised, the value it returned and
\* the rows it had read from the warehouse
NoReturn == [outcome |-> "never", value |-> 0, read |-> <<>>]

\* a thread that is not inside refresh_network_cache
Idle ==
    [pc |-> "idle", i |-> 0, batch |-> <<>>, rows_inserted |-> 0, tbl |-> <<>>,
     before |-> <<>>, result |-> <<>>, ret |-> NoReturn]

(* The local database lets one transaction write at a time (SQLite, the    *)
(* default of create_app): thread p can take the write lock for its DELETE *)
(* when no other refresh holds it.                                         *)
WriteLockFree(txns, p) == \A q \in DOMAIN txns \ {p} : ~InTransactionAt(txns[q].pc)

\* the thread is inside "with db.engine.begin() as lconn"
InTransaction(t) == InTransactionAt(t.pc)

\* mutant: the refresh writes on a connection that commits every statement,
\* so that its DELETE and its INSERTs are seen at once
SeenDirty(committed, txns) ==
    IF \E p \in DOMAIN txns : InTransaction(txns[p])
    THEN (txns[CHOOSE p \in DOMAIN txns : InTransaction(txns[p])]).tbl
    ELSE committed

(* The rows of network_npis a statement of another connection reads while  *)
(* the transactions txns of refresh_network_cache are open: the committed  *)
(* rows, since the DELETE and the INSERTs of a refresh are inside one       *)
(* transaction (db.engine.begin()) and the match reads on db.session.       *)
SeenByOthers(committed, txns) == committed

MatchState ==
    [enabled |-> match_enabled, strategy |-> network_cache_strategy,
     engine |-> ro_engine, sql |-> ro_sql_network_npi, table |-> network_table,
     npis |-> SeenByOthers(network_npis, rf), source |-> source,
     lists |-> target_lists, entries |-> target_list_entries]

RefreshState ==
    [engine |-> ro_engine, sql |-> ro_sql_network_npi,
     limit |-> network_cache_limit, source |-> source, table |-> network_table,
     npis |-> network_npis, last_at |-> network_cache_last_at,
     count |-> network_cache_count, now |-> clock + 1]

Config == <<ro_engine, ro_sql_network_npi, network_cache_strategy,
            network_cache_limit, match_enabled>>

CacheInfo == <<network_cache_last_at, network_cache_count, clock>>

Store == <<target_lists, target_list_entries>>

\* create_app(): init_readonly_engine_from_env(), then requests are served
Startup ==
    /\ phase = "boot"
    /\ \E env \in Envs({-1, 0, 1}), fault \in RefreshFaults(source) :
          LET r == init_readonly_engine_from_env(env, RefreshState, fault)
          IN  /\ r.refreshed => clock < MaxClock
              /\ phase' = IF r.completed THEN "serving" ELSE "crashed"
              /\ ro_engine' = r.engine
              /\ ro_sql_network_npi' = r.sql
              /\ network_cache_strategy' = r.strategy
              /\ network_cache_limit' = r.limit
              /\ network_table' = r.table
              /\ network_npis' = r.npis
              /\ network_cache_last_at' = r.last_at
              /\ network_cache_count' = r.count
              /\ clock' = IF r.refreshed THEN clock + 1 ELSE clock
              /\ last' = [op |-> "startup", outcome |-> r.raised,
                          value |-> r.count, tid |-> 0, match |-> NoMatch,
                          input |-> NoFile, calls |-> r.calls,
                          started |-> r.started]
    /\ UNCHANGED <<match_enabled, source, Store, rf>>

\* POST /target-lists with an upload of ups
UploadOf(ups) ==
    /\ phase = "serving"
    /\ \E up \in ups, f \in UploadFaults(network_cache_strategy, source) :
          LET r == target_lists_POST(MatchState, up, f[1], f[2])
          IN  /\ target_lists' = r.store.lists
              /\ target_list_entries' = r.store.entries
              /\ network_table' = r.table
              /\ last' = [op |-> "upload", outcome |-> r.outcome,
                          value |-> r.match.value, tid |-> r.tid,
                          match |-> r.match, input |-> up, calls |-> 0,
                          started |-> FALSE]
    /\ UNCHANGED <<phase, Config, CacheInfo, source, network_npis, rf>>

\* GET /target-lists/<tid>
Detail ==
    /\ phase = "serving"
    /\ \E tid \in 1..MaxLists, f \in DetailFaults(network_cache_strategy, source) :
          LET r == target_list_detail(MatchState, tid, f[1], f[2])
          IN  /\ target_lists' = r.store.lists
              /\ target_list_entries' = r.store.entries
              /\ network_table' = r.table
              /\ last' = [op |-> "detail", outcome |-> r.outcome,
                          value |-> r.match.value, tid |-> r.tid,
                          match |-> r.match, input |-> NoFile, calls |-> 0,
                          started |-> FALSE]
    /\ UNCHANGED <<phase, Config, CacheInfo, source, network_npis, rf>>

\* the operator's trigger: a call of refresh_network_cache()
Refresh ==
    /\ phase = "serving"
    /\ \E fault \in RefreshFaults(source) :
          LET r == refresh_network_cache(RefreshState, fault)
          IN  /\ r.raised = "none" => clock < MaxClock
              /\ network_table' = r.table
              /\ network_npis' = r.npis
              /\ network_cache_last_at' = r.last_at
              /\ network_cache_count' = r.count
              /\ clock' = IF r.raised = "none" THEN clock + 1 ELSE clock
              /\ last' = [op |-> "refresh", outcome |-> r.raised,
                          value |-> r.value, tid |-> 0, match |-> NoMatch,
                          input |-> NoFile, calls |-> 1, started |-> r.started]
    /\ UNCHANGED <<phase, Config, source, Store, rf>>

(* refresh_network_cache() run by thread p one step at a time, as it runs  *)
(* beside the requests of other threads.  Lines 96-112: the guard, the     *)
(* table, and the warehouse query, whose result is the warehouse's rows of *)
(* that moment.                                                            *)
RBegin(p) ==
    /\ phase = "serving"
    /\ rf[p].pc = "idle"
    /\ clock < MaxClock
    /\ IF ~SourceConfigured(ro_engine, ro_sql_network_npi)
       THEN /\ last' = [op |-> "refresh", outcome |-> "RuntimeError", value |-> 0,
                        tid |-> 0, match |-> NoMatch, input |-> NoFile,
                        calls |-> 1, started |-> FALSE]
            /\ UNCHANGED <<network_table, rf>>
       ELSE /\ network_table' = TRUE
            /\ rf' = [rf EXCEPT ![p] =
                         [Idle EXCEPT !.pc = "delete", !.before = network_npis,
                                      !.result = source]]
            /\ UNCHANGED last
    /\ UNCHANGED <<phase, Config, CacheInfo, source, network_npis, Store>>

\* lines 117-119: the local transaction begins and deletes the rows it finds
RDelete(p) ==
    /\ rf[p].pc = "delete"
    /\ WriteLockFree(rf, p)
    /\ rf' = [rf EXCEPT ![p] =
                 [@ EXCEPT !.pc = "loop", !.i = 1, !.before = network_npis,
                           !.tbl = Truncate(network_npis)]]
    /\ UNCHANGED <<phase, Config, CacheInfo, source, network_table, network_npis,
                   Store, last>>

\* the DELETE gives up waiting for the write lock ("database is locked")
RLocked(p) ==
    /\ rf[p].pc = "delete"
    /\ ~WriteLockFree(rf, p)
    /\ last' = [op |-> "refresh", outcome |-> "Exception", value |-> 0,
                tid |-> 0, match |-> NoMatch, input |-> NoFile,
                calls |-> 1, started |-> TRUE]
    /\ rf' = [rf EXCEPT ![p] =
                 [Idle EXCEPT !.ret = [outcome |-> "Exception", value |-> 0,
                                       read |-> rf[p].result]]]
    /\ UNCHANGED <<phase, Config, CacheInfo, source, network_table, network_npis,
                   Store>>

\* lines 120-133: one turn of "for row in result"
RRow(p) ==
    /\ rf[p].pc = "loop"
    /\ rf[p].i <= Len(rf[p].result)
    /\ LET t == rf[p]
           b == Append(t.batch, str(t.result[t.i]))
           n == t.rows_inserted + Len(b)
       IN  rf' = [rf EXCEPT ![p] =
                    IF SkipRow(t.result[t.i]) THEN [t EXCEPT !.i = @ + 1]
                    ELSE IF Len(b) >= BatchSize
                    THEN [t EXCEPT !.tbl = InsertBatch(@, b), !.rows_inserted = n,
                                   !.batch = <<>>,
                                   !.i = IF ReachedLimit(n, network_cache_limit)
                                         THEN @ ELSE @ + 1,
                                   !.pc = IF ReachedLimit(n, network_cache_limit)
                                          THEN "flush" ELSE @]
                    ELSE [t EXCEPT !.batch = b, !.i = @ + 1]]
    /\ UNCHANGED <<phase, Config, CacheInfo, source, network_table, network_npis,
                   Store, last>>

\* lines 134-139, after the loop ended or was left: the rest of the batch
RFlush(p) ==
    /\ \/ rf[p].pc = "flush"
       \/ rf[p].pc = "loop" /\ rf[p].i > Len(rf[p].result)
    /\ rf' = [rf EXCEPT ![p] =
                 [@ EXCEPT !.tbl = InsertBatch(@, rf[p].batch),
                           !.rows_inserted = @ + Len(rf[p].batch),
                           !.batch = <<>>, !.pc = "commit"]]
    /\ UNCHANGED <<phase, Config, CacheInfo, source, network_table, network_npis,
                   Store, last>>

\* the end of "with db.engine.begin() as lconn": the transaction commits
RCommit(p) ==
    /\ rf[p].pc = "commit"
    /\ network_npis' = rf[p].tbl
    /\ rf' = [rf EXCEPT ![p].pc = "globals"]
    /\ UNCHANGED <<phase, Config, CacheInfo, source, network_table, Store, last>>

\* lines 141-143: the two globals are set and the count returned
RFinish(p) ==
    /\ rf[p].pc = "globals"
    /\ network_cache_last_at' = clock + 1
    /\ network_cache_count' = rf[p].rows_inserted
    /\ clock' = clock + 1
    /\ last' = [op |-> "refresh", outcome |-> "none",
                value |-> rf[p].rows_inserted, tid |-> 0, match |-> NoMatch,
                input |-> NoFile, calls |-> 1, started |-> TRUE]
    /\ rf' = [rf EXCEPT ![p] =
                 [Idle EXCEPT !.ret = [outcome |-> "none",
                                       value |-> rf[p].rows_inserted,
                                       read |-> rf[p].result]]]
    /\ UNCHANGED <<phase, Config, source, network_table, network_npis, Store>>

\* the stream or an INSERT raises inside the transaction, which is rolled back
RAbort(p) ==
    /\ InTransaction(rf[p])
    /\ network_npis' = RollbackLocal(network_npis, rf[p].tbl)
    /\ last' = [op |-> "refresh", outcome |-> "Exception", value |-> 0,
                tid |-> 0, match |-> NoMatch, input |-> NoFile,
                calls |-> 1, started |-> TRUE]
    /\ rf' = [rf EXCEPT ![p] =
                 [Idle EXCEPT !.ret = [outcome |-> "Exception", value |-> 0,
                                       read |-> rf[p].result]]]
    /\ UNCHANGED <<phase, Config, CacheInfo, source, network_table, Store>>

\* no refresh was made or is under way, and no request served yet
Fresh ==
    /\ network_cache_last_at = 0
    /\ network_cache_count = 0
    /\ clock = 0
    /\ last = [op |-> "init", outcome |-> "none", value |-> 0, tid |-> 0,
               match |-> NoMatch, input |-> NoFile, calls |-> 0, started |-> FALSE]
    /\ rf = [p \in Racers |-> Idle]

\* the module globals before create_app
Unconfigured ==
    /\ ro_engine = FALSE
    /\ ro_sql_network_npi = FALSE
    /\ network_cache_strategy = "unset"
    /\ network_cache_limit = 0
    /\ Fresh

(* The process from its start: the local database is new or was left by    *)
(* an earlier run with some mirror in it.                                  *)
Init ==
    /\ phase = "boot"
    /\ Unconfigured
    /\ match_enabled = TRUE
    /\ source \in SeqsUpTo({<<"1">>, <<" ", "1">>}, SysMaxSrc)
    /\ \/ network_table = FALSE /\ network_npis = <<>>
       \/ network_table = TRUE /\ network_npis = <<<<"2">>>>
    /\ target_lists = <<>>
    /\ target_list_entries = <<>>

SysUpload ==
    /\ Len(target_lists) < MaxLists
    /\ UploadOf(Uploads({<<"1">>}, {<<"a">>}, SysMaxRows))

Next == Startup \/ SysUpload \/ Detail \/ Refresh

Spec == Init /\ [][Next]_vars

(* refresh_network_cache on its inputs: a serving process under the manual *)
(* strategy, with any configuration of the source and of the cap, any      *)
(* warehouse result, and a local database that is new or holds a mirror.   *)
InitRefresh ==
    /\ phase = "serving"
    /\ ro_engine \in BOOLEAN
    /\ ro_sql_network_npi \in BOOLEAN
    /\ network_cache_strategy = "manual"
    /\ network_cache_limit \in 0..MaxLimit
    /\ Fresh
    /\ match_enabled = TRUE
    /\ source \in Sources(MaxSrc)
    /\ \/ network_table = FALSE /\ network_npis = <<>>
       \/ network_table = TRUE /\ network_npis = <<<<"2">>, <<"1">>>>
    /\ target_lists = <<>>
    /\ target_list_entries = <<>>

NextRefresh == Refresh

SpecRefresh == InitRefresh /\ [][NextRefresh]_vars

(* The upload route on its inputs: a serving process of any strategy, a    *)
(* warehouse and a mirror that hold the identifier 1 or nothing, and one   *)
(* upload, of few records or of many columns, into a store that is empty   *)
(* or holds a list already.                                                *)
InitIngest ==
    /\ phase = "serving"
    /\ ro_engine = TRUE
    /\ ro_sql_network_npi = TRUE
    /\ network_cache_strategy \in {"live", "startup_snapshot", "manual"}
    /\ network_cache_limit = 0
    /\ Fresh
    /\ match_enabled \in BOOLEAN
    /\ source \in {<<>>, <<<<"1">>>>}
    /\ network_table = TRUE
    /\ network_npis \in {<<>>, <<<<"1">>>>}
    /\ \/ target_lists = <<>> /\ target_list_entries = <<>>
       \/ /\ target_lists = <<[id |-> 1, n_rows |-> 1, n_unique_npi |-> 1,
                              n_matched_network |-> 0]>>
          /\ target_list_entries = <<[target_list_id |-> 1, npi |-> <<"2">>,
                                     extra |-> <<>>]>>

OneUpload ==
    /\ last.op = "init"
    /\ UploadOf(Uploads(CellVals, XVals, MaxRows) \cup OtherUploads \cup WideUploads)

NextIngest == OneUpload

SpecIngest == InitIngest /\ [][NextIngest]_vars

(* compute_network_match_count on its inputs: a serving process of any     *)
(* strategy, with or without the warehouse connection, any warehouse       *)
(* result, a mirror, and a stored list of no, one or two entries.          *)
InitMatch ==
    /\ phase = "serving"
    /\ ro_engine \in BOOLEAN
    /\ ro_sql_network_npi = TRUE
    /\ network_cache_strategy \in {"live", "startup_snapshot", "manual"}
    /\ network_cache_limit = 0
    /\ Fresh
    /\ match_enabled \in BOOLEAN
    /\ source \in Sources(MaxSrc)
    /\ network_table = TRUE
    /\ network_npis = <<<<"1">>>>
    /\ target_lists = <<[id |-> 1, n_rows |-> 2, n_unique_npi |-> 2,
                         n_matched_network |-> 0]>>
    /\ target_list_entries \in
          {SubSeq(<<[target_list_id |-> 1, npi |-> <<"1">>, extra |-> <<>>],
                    [target_list_id |-> 1, npi |-> <<"2">>, extra |-> <<>>]>>, 1, n) :
              n \in 0..2}

\* a call compute_network_match_count(tid), all of its result recorded
MatchCall ==
    /\ phase = "serving"
    /\ \E tid \in 1..Len(target_lists),
          fault \in {NoFault} \cup MatchFaults(network_cache_strategy, source) :
          LET m == compute_network_match_count(MatchState,
                       ListNpis(target_list_entries, tid), fault)
          IN  /\ network_table' = m.table
              /\ last' = [op |-> "match",
                          outcome |-> IF m.raised THEN "raised" ELSE "returned",
                          value |-> m.value, tid |-> tid,
                          match |-> [ran |-> TRUE, value |-> m.value,
                                     raised |-> m.raised, failed |-> m.failed,
                                     connected |-> m.connected, held |-> m.held,
                                     partial |-> m.partial],
                          input |-> NoFile, calls |-> 0, started |-> FALSE]
    /\ UNCHANGED <<phase, Config, CacheInfo, source, network_npis, Store, rf>>

NextMatch == MatchCall

SpecMatch == InitMatch /\ [][NextMatch]_vars

(* A refresh beside the detail views of other threads: a serving process   *)
(* under the manual strategy, configured, a mirror that is empty or was    *)
(* filled before, and a stored list of the identifiers 1 and 2.            *)
InitConcurrent ==
    /\ phase = "serving"
    /\ ro_engine = TRUE
    /\ ro_sql_network_npi = TRUE
    /\ network_cache_strategy = "manual"
    /\ network_cache_limit \in 0..MaxLimit
    /\ Fresh
    /\ match_enabled = TRUE
    /\ source \in SeqsUpTo({NoneVal, <<"1">>, <<"2">>}, MaxSrc)
    /\ network_table = TRUE
    /\ network_npis \in {<<>>, <<<<"2">>, <<"1">>>>}
    /\ target_lists = <<[id |-> 1, n_rows |-> 2, n_unique_npi |-> 2,
                         n_matched_network |-> 0]>>
    /\ target_list_entries =
          <<[target_list_id |-> 1, npi |-> <<"1">>, extra |-> <<>>],
            [target_list_id |-> 1, npi |-> <<"2">>, extra |-> <<>>]>>

RefreshStep(p) ==
    RBegin(p) \/ RDelete(p) \/ RRow(p) \/ RFlush(p) \/ RCommit(p) \/ RFinish(p)
    \/ RAbort(p)

NextConcurrent == (\E p \in Refreshers : RefreshStep(p)) \/ Detail

SpecConcurrent == InitConcurrent /\ [][NextConcurrent]_vars

(* Two threads call refresh_network_cache() with nothing between them:     *)
(* the module has no lock, and each call reads the warehouse at its own    *)
(* moment while the warehouse goes on taking rows.                         *)
RaceIds == {<<"1">>, <<"2">>}

InitRace ==
    /\ phase = "serving"
    /\ ro_engine = TRUE
    /\ ro_sql_network_npi = TRUE
    /\ network_cache_strategy = "manual"
    /\ network_cache_limit = 0
    /\ Fresh
    /\ match_enabled = TRUE
    /\ source \in {<<>>} \cup {<<v>> : v \in RaceIds}
    /\ network_table = TRUE
    /\ network_npis \in {<<>>, <<<<"2">>, <<"1">>>>}
    /\ target_lists = <<>>
    /\ target_list_entries = <<>>

\* the warehouse takes a row with an identifier it did not hold
SourceGrows ==
    /\ Len(source) < MaxSrc
    /\ \E v \in RaceIds \ Range(source) : source' = Append(source, v)
    /\ UNCHANGED <<phase, Config, CacheInfo, network_table, network_npis, Store,
                   last, rf>>

NextRace == (\E p \in Racers : RefreshStep(p) \/ RLocked(p)) \/ SourceGrows

SpecRace == InitRace /\ [][NextRace]_vars

-----------------------------------------------------------------------------
(* Properties                                                              *)

CacheStrategies == {"startup_snapshot", "manual"}

\* the mirror an uncapped refresh that succeeds makes of the warehouse result src
FreshMirror(src) == RefillTransaction(src, <<>>, 0, NoFault).tbl

\* the count the live strategy gives list tid on the present warehouse result
LiveCount(tid) ==
    compute_network_match_count([MatchState EXCEPT !.strategy = "live"],
                                ListNpis(target_list_entries, tid), NoFault).value

\* the rows of table tbl that belong to list tid
EntriesOf(tbl, tid) == SelectSeq(tbl, LAMBDA e : e.target_list_id = tid)

\* the canonical identifier of record r of upload up under column col
CleanAt(up, r, col) == _extract_clean_npi(Cell(up, r, col))

\* record r is the first of upload up whose identifier is npi
IsFirstWith(up, r, col, npi) ==
    /\ CleanAt(up, r, col) = npi
    /\ \A q \in 1..(r - 1) : CleanAt(up, q, col) # npi

NoDuplicates(tbl) == \A i, j \in 1..Len(tbl) : i # j => tbl[i] # tbl[j]

\* the last operation was a call of refresh_network_cache that returned
Refreshed == last.op = "refresh" /\ last.outcome = "none"

(* C1: every stored TargetList has n_unique_npi <= n_rows and              *)
(* n_matched_network <= n_unique_npi, whatever uploads, detail views and   *)
(* refreshes were made and whatever the strategy.                          *)
C1_CountsOrdered ==
    \A i \in 1..Len(target_lists) :
        /\ target_lists[i].n_unique_npi <= target_lists[i].n_rows
        /\ target_lists[i].n_matched_network <= target_lists[i].n_unique_npi

(* C2: a match under a cache strategy, on a mirror that holds what an      *)
(* uncapped refresh makes of the present warehouse result, returns the     *)
(* count the live strategy returns for the same list and result.           *)
C2_CacheEqualsLive ==
    (/\ last.op \in {"upload", "detail"}
     /\ last.outcome \in {"stored", "shown"}
     /\ last.match.ran /\ ~last.match.failed
     /\ network_cache_strategy \in CacheStrategies
     /\ ro_engine /\ ro_sql_network_npi
     /\ network_npis = FreshMirror(source))
    => last.match.value = LiveCount(last.tid)

(* C3: compute_network_match_count never raises to its caller, and a call  *)
(* in which any step failed returns 0, under every strategy.               *)
C3_MatchNeverRaises ==
    last.match.ran =>
        /\ ~last.match.raised
        /\ last.match.failed => last.match.value = 0

\* a live match that failed after it had connected, on a list that matches
C3_Witness ==
    /\ last.op = "detail"
    /\ last.match.failed /\ last.match.connected
    /\ LiveCount(last.tid) > 0

(* C4: an upload that fails at any step leaves target_lists and            *)
(* target_list_entries as they were; one that succeeds adds the list row   *)
(* with its counts and exactly its deduplicated entries, and nothing else. *)
C4_IngestAtomic ==
    [][last'.op = "upload" =>
         IF last'.outcome = "stored"
         THEN LET up == last'.input
                  col == _pick_npi_column(up)
                  t == target_lists'[Len(target_lists')]
                  new == SubSeq(target_list_entries', Len(target_list_entries) + 1,
                                Len(target_list_entries'))
              IN  /\ Len(target_lists') = Len(target_lists) + 1
                  /\ SubSeq(target_lists', 1, Len(target_lists)) = target_lists
                  /\ SubSeq(target_list_entries', 1, Len(target_list_entries))
                        = target_list_entries
                  /\ t.id = last'.tid
                  /\ t.n_rows = Len(up.cells)
                  /\ t.n_unique_npi = Len(new)
                  /\ t.n_matched_network = last'.match.value
                  /\ \A i \in 1..Len(new) : new[i].target_list_id = t.id
                  /\ {new[i].npi : i \in 1..Len(new)}
                        = {CleanAt(up, r, col) : r \in 1..Len(up.cells)} \ {<<>>}
         ELSE UNCHANGED <<target_lists, target_list_entries>>]_vars

\* an upload with identifiers failed at the commit, over a store that held a list
C4_Witness ==
    /\ last.op = "upload" /\ last.outcome = "failed"
    /\ last.match.ran
    /\ \E r \in 1..Len(last.input.cells) :
          CleanAt(last.input, r, _pick_npi_column(last.input)) # <<>>
    /\ target_lists # <<>>

(* C5: after a stored upload every entry of the new list carries the       *)
(* payload of the first record, in source order, that normalizes to its    *)
(* identifier; no identifier has two entries, and later records of the     *)
(* same identifier leave nothing.                                          *)
C5_FirstOccurrenceWins ==
    (last.op = "upload" /\ last.outcome = "stored") =>
        LET up == last.input
            col == _pick_npi_column(up)
            mine == EntriesOf(target_list_entries, last.tid)
        IN  /\ \A i \in 1..Len(mine) :
                  \E r \in 1..Len(up.cells) :
                      /\ IsFirstWith(up, r, col, mine[i].npi)
                      /\ mine[i].extra = Extra(up, r, col)
            /\ \A i, j \in 1..Len(mine) : i # j => mine[i].npi # mine[j].npi
            /\ Len(mine)
                  = Cardinality({CleanAt(up, r, col) : r \in 1..Len(up.cells)}
                                \ {<<>>})

\* a stored upload in which two records of one identifier differ in payload
C5_Witness ==
    /\ last.op = "upload" /\ last.outcome = "stored"
    /\ \E r1, r2 \in 1..Len(last.input.cells) :
          LET col == _pick_npi_column(last.input)
          IN  /\ r1 < r2
              /\ CleanAt(last.input, r1, col) # <<>>
              /\ CleanAt(last.input, r1, col) = CleanAt(last.input, r2, col)
              /\ Cell(last.input, r1, col) # Cell(last.input, r2, col)
              /\ Extra(last.input, r1, col) # Extra(last.input, r2, col)

(* C6: after a refresh that returned, a second refresh of the unchanged    *)
(* warehouse result leaves the same mirror rows and the same count, and    *)
(* the mirror holds no identifier twice.                                   *)
C6_RefreshIdempotent ==
    Refreshed =>
        LET again == refresh_network_cache(RefreshState, NoFault)
        IN  /\ again.raised = "none"
            /\ again.npis = network_npis
            /\ Len(again.npis) = Len(network_npis)
            /\ again.count = network_cache_count
            /\ NoDuplicates(network_npis)
            /\ NoDuplicates(again.npis)

\* a refresh returned on a result that repeats an identifier, over an older mirror
C6_Witness ==
    /\ Refreshed
    /\ \E i, j \in 1..Len(source) : i # j /\ source[i] = source[j] /\ ~SkipRow(source[i])
    /\ network_npis # <<>>

(* C7: the value a refresh returns, and network_cache_count, is the number *)
(* of rows the mirror holds when the refresh ends.                         *)
C7_ReturnsRowsInserted ==
    Refreshed =>
        /\ last.value = Len(network_npis)
        /\ network_cache_count = Len(network_npis)

(* C8: under a cap L a refresh stops once the cap is reached: the rows it  *)
(* has inserted, those the mirror holds when it ends, are no more than L.  *)
C8_CapRespected ==
    (Refreshed /\ network_cache_limit > 0) =>
        Len(network_npis) <= network_cache_limit

(* C9: a refresh without the connection or without the query raises the    *)
(* not-configured error and leaves the mirror table, its rows,             *)
(* network_cache_last_at and network_cache_count as they were.             *)
C9_UnconfiguredRefusal ==
    [][(last'.op = "refresh" /\ (~ro_engine \/ ~ro_sql_network_npi))
          => /\ last'.outcome = "RuntimeError"
             /\ UNCHANGED <<network_table, network_npis, network_cache_last_at,
                            network_cache_count>>]_vars

\* a refusal: a refresh was tried with one of the two missing, over a filled mirror
C9_Witness ==
    /\ last.op = "refresh" /\ last.outcome = "RuntimeError"
    /\ ro_engine # ro_sql_network_npi
    /\ network_npis # <<>>

(* C10: under the manual strategy the rows of the mirror change in no step *)
(* but a call of refresh_network_cache: not at startup, not in an upload,  *)
(* not in a detail view.                                                   *)
C10_ManualNoImplicitRefresh ==
    [][(network_cache_strategy' = "manual" /\ network_npis' # network_npis)
          => last'.op = "refresh"]_vars

\* a detail view under manual, configured, whose mirror is not what a refresh would give
C10_Witness ==
    /\ network_cache_strategy = "manual"
    /\ ro_engine /\ ro_sql_network_npi
    /\ last.op = "detail" /\ last.outcome = "shown"
    /\ network_npis # <<>>
    /\ network_npis # FreshMirror(source)

(* C11: at process start under startup_snapshot, with the connection and   *)
(* the query configured, refresh_network_cache is called exactly once;     *)
(* with one of them missing it is not called.  Whatever the refresh does,  *)
(* initialization completes and the process serves, and after a refresh    *)
(* that failed the mirror, network_cache_last_at and network_cache_count   *)
(* are those it had.                                                       *)
C11_StartupSnapshotOnceNonFatal ==
    [][(last'.op = "startup" /\ network_cache_strategy' = "startup_snapshot")
          => /\ phase' = "serving"
             /\ last'.calls = IF ro_engine' /\ ro_sql_network_npi' THEN 1 ELSE 0
             /\ last'.outcome # "none"
                   => UNCHANGED <<network_npis, network_cache_last_at,
                                  network_cache_count>>]_vars

\* the process serves after a snapshot at startup that failed, over an older mirror
C11_Witness ==
    /\ phase = "serving"
    /\ last.op = "startup" /\ last.calls = 1 /\ last.outcome = "Exception"
    /\ network_cache_strategy = "startup_snapshot"
    /\ network_npis # <<>>

(* C11 as stated: under startup_snapshot refresh_network_cache is called   *)
(* exactly once at process start, and the process serves afterwards.       *)
C11_AttemptedExactlyOnce ==
    (last.op = "startup" /\ network_cache_strategy = "startup_snapshot")
        => (phase = "serving" /\ last.calls = 1)

\* row t of target_lists but for its stored match count
ButMatchCount(t) == [t EXCEPT !.n_matched_network = 0]

C13_CountsOfUpload ==
    (last.op = "upload" /\ last.outcome = "stored") =>
        LET up == last.input
            col == _pick_npi_column(up)
            t == target_lists[last.tid]
            rs == 1..Len(up.cells)
        IN  /\ t.n_rows = Len(up.cells)
            /\ (t.n_unique_npi = t.n_rows)
                  <=> \A r \in rs :
                         /\ CleanAt(up, r, col) # <<>>
                         /\ \A q \in rs \ {r} : CleanAt(up, q, col) # CleanAt(up, r, col)

\* a stored upload of two records, one without identifier: n_unique_npi < n_rows
C13_Witness ==
    /\ last.op = "upload" /\ last.outcome = "stored"
    /\ Len(last.input.cells) = 2
    /\ \E r \in 1..2 : CleanAt(last.input, r, _pick_npi_column(last.input)) = <<>>
    /\ target_lists[last.tid].n_unique_npi = 1
    /\ target_lists[last.tid].n_rows = 2

\* the columns of record r of upload up but column col, in the file's order
OtherColumns(up, r, col) == SelectSeq(RowItems(up, r), LAMBDA kv : kv[1] # col)

(* C14: after a stored upload the payload of every entry of the new list   *)
(* has at most 30 keys, none of them the identifier column; it is the      *)
(* other columns of the winning record with their values, all of them      *)
(* when they are 30 or fewer and else the first 30 in column order.        *)
C14_PayloadCapped ==
    (last.op = "upload" /\ last.outcome = "stored") =>
        LET up == last.input
            col == _pick_npi_column(up)
            mine == EntriesOf(target_list_entries, last.tid)
        IN  \A i \in 1..Len(mine) :
                /\ Len(mine[i].extra) <= 30
                /\ \A k \in 1..Len(mine[i].extra) : mine[i].extra[k][1] # col
                /\ \E r \in 1..Len(up.cells) :
                      /\ IsFirstWith(up, r, col, mine[i].npi)
                      /\ mine[i].extra =
                            IF Len(OtherColumns(up, r, col)) > 30
                            THEN SubSeq(OtherColumns(up, r, col), 1, 30)
                            ELSE OtherColumns(up, r, col)

\* a stored record of 31 other columns, the identifier column not the first
C14_Witness ==
    /\ last.op = "upload" /\ last.outcome = "stored"
    /\ Len(last.input.headers) = 32
    /\ last.input.headers[1] # "npi"
    /\ \E i \in 1..Len(target_list_entries) :
          /\ target_list_entries[i].target_list_id = last.tid
          /\ Len(target_list_entries[i].extra) = 30

\* the raw cell with every character that is not one of 0-9 removed
DecimalOnly(raw) ==
    SelectSeq(IF raw = NoneVal THEN <<>> ELSE raw, LAMBDA ch : ch \in AsciiDigits)

(* C15: every identifier stored as a TargetListEntry is non-empty and made *)
(* of the digits 0-9 only; after a stored upload the identifiers of the    *)
(* new list are the raw cells with every other character removed, those    *)
(* that come out empty left aside.                                         *)
C15_IdentifiersDecimal ==
    /\ \A i \in 1..Len(target_list_entries) :
          /\ target_list_entries[i].npi # <<>>
          /\ \A k \in 1..Len(target_list_entries[i].npi) :
                target_list_entries[i].npi[k] \in AsciiDigits
    /\ (last.op = "upload" /\ last.outcome = "stored") =>
          LET up == last.input
              col == _pick_npi_column(up)
          IN  ListNpis(target_list_entries, last.tid)
                 = {DecimalOnly(Cell(up, r, col)) : r \in 1..Len(up.cells)} \ {<<>>}

(* C16: an upload whose match computation failed, its storage steps        *)
(* succeeding, is stored all the same: the list row with                   *)
(* n_matched_network = 0 and its counts, and every deduplicated entry.     *)
C16_MatchFailureKeepsIngest ==
    (last.op = "upload" /\ last.match.ran /\ last.match.failed) =>
        /\ last.outcome = "stored"
        /\ last.tid \in 1..Len(target_lists)
        /\ LET up == last.input
               col == _pick_npi_column(up)
               t == target_lists[last.tid]
               mine == EntriesOf(target_list_entries, last.tid)
           IN  /\ t.n_matched_network = 0
               /\ t.n_rows = Len(up.cells)
               /\ t.n_unique_npi = Len(mine)
               /\ {mine[i].npi : i \in 1..Len(mine)}
                     = {CleanAt(up, r, col) : r \in 1..Len(up.cells)} \ {<<>>}

\* an upload stored with its entries although the warehouse failed it, the
\* warehouse holding an identifier of the list
C16_Witness ==
    /\ last.op = "upload" /\ last.outcome = "stored"
    /\ last.match.failed /\ last.match.connected
    /\ \E i \in 1..Len(target_list_entries) :
          /\ target_list_entries[i].target_list_id = last.tid
          /\ \E j \in 1..Len(source) : Yielded(source[j]) = target_list_entries[i].npi

(* C17: compute_network_match_count opens a warehouse connection only     *)
(* under the live strategy and for a list that has entries: under          *)
(* startup_snapshot and manual it opens none, and under live for a list    *)
(* without entries it returns 0 and opens none.                            *)
C17_ConnectsOnlyLiveNonEmpty ==
    last.op = "match" =>
        /\ last.match.connected
              => /\ network_cache_strategy = "live"
                 /\ ListNpis(target_list_entries, last.tid) # {}
        /\ (network_cache_strategy = "live"
              /\ ListNpis(target_list_entries, last.tid) = {})
              => last.match.value = 0

\* a live match of a list without entries, the warehouse configured and not empty
C17_Witness ==
    /\ last.op = "match" /\ last.outcome = "returned"
    /\ network_cache_strategy = "live" /\ match_enabled
    /\ ro_engine /\ ro_sql_network_npi
    /\ target_list_entries = <<>>
    /\ source # <<>>
    /\ ~last.match.connected

\* a live match whose stream failed after a chunk was delivered
FaultAfterChunk ==
    /\ last.op = "match"
    /\ network_cache_strategy = "live"
    /\ last.match.failed
    /\ last.match.held > 0

C19_FailedRefreshRollsBack ==
    [][(last'.op = "refresh" /\ last'.started /\ last'.outcome # "none")
          => UNCHANGED <<network_npis, network_cache_last_at,
                         network_cache_count>>]_vars

\* a refresh failed inside its transaction, after an earlier one had filled the mirror
C19_Witness ==
    /\ last.op = "refresh" /\ last.started /\ last.outcome = "Exception"
    /\ network_cache_last_at > 0
    /\ network_cache_count > 0
    /\ network_npis # <<>>

\* the mirror a refresh leaves that began on the mirror before and runs to its end
CompleteRefill(before) ==
    RefillTransaction(source, before, network_cache_limit, NoFault).tbl

(* C20: a match under a cache strategy whose query succeeds while a        *)
(* refresh is under way counts against the whole mirror of before the      *)
(* refresh or the whole mirror the refresh leaves, never against the       *)
(* emptied or half filled one.                                             *)
C20_MatchSeesWholeMirror ==
    [][\A p \in Refreshers :
          (/\ rf[p].pc # "idle"
           /\ last'.op = "detail" /\ last'.match.ran /\ ~last'.match.failed
           /\ network_cache_strategy \in CacheStrategies)
          => LET tl_npis == ListNpis(target_list_entries, last'.tid)
                 pre == rf[p].before
                 post == CompleteRefill(rf[p].before)
             IN  last'.match.value
                    \in {CacheMatch(pre, tl_npis), CacheMatch(post, tl_npis)}]_vars

\* a detail view stored the count of the old mirror while a refresh had emptied
\* the table and put a first batch in, the count of that batch being another
C20_Witness ==
    /\ last.op = "detail" /\ last.outcome = "shown" /\ ~last.match.failed
    /\ \E p \in Refreshers :
          /\ rf[p].pc = "loop"
          /\ rf[p].tbl # <<>>
          /\ last.match.value = CacheMatch(rf[p].before, ListNpis(target_list_entries, 1))
          /\ last.match.value # CacheMatch(rf[p].tbl, ListNpis(target_list_entries, 1))
          /\ CacheMatch(rf[p].tbl, ListNpis(target_list_entries, 1))
                # CacheMatch(CompleteRefill(rf[p].before), ListNpis(target_list_entries, 1))

\* the mirror a call leaves that read the rows of read and ran alone
MirrorOfRead(read) == RefillTransaction(read, <<>>, network_cache_limit, NoFault).tbl

\* both threads made their call and both calls returned
BothReturned == \A p \in Racers : rf[p].pc = "idle" /\ rf[p].ret.outcome = "none"

(* C21: once two concurrent refreshes have both returned, the mirror holds *)
(* exactly the identifiers one of the two calls read, each once, and       *)
(* network_cache_count is the count that same call returned.               *)
C21_OneCallsReadAndCount ==
    BothReturned
    => \E p \in Racers :
          /\ NoDuplicates(network_npis)
          /\ Range(network_npis) = Range(MirrorOfRead(rf[p].ret.read))
          /\ network_cache_count = rf[p].ret.value

=============================================================================
